---- MODULE Spec2Model ----
(***************************************************************************)
(* rewriteImports (application-security-check.ts, lines 335-450): the      *)
(* rewriter of `@aws-cdk/*` import paths to their `aws-cdk-lib` location.  *)
(* Source texts are strings, offsets are 0-based as in the source.         *)
(***************************************************************************)
EXTENDS Integers, Sequences, FiniteSets, TLC

\* The largest number of top-level statements of an input source.
MaxStmts == 2

----------------------------------------------------------------------------
\* String primitives of the source language.

Min(a, b) == IF a <= b THEN a ELSE b

\* String.prototype.substring(a, b): clamped to the string, arguments swapped
\* when a > b.
substring(s, a, b) ==
  LET lo == Min(Min(a, b), Len(s))
      hi == Min(IF a <= b THEN b ELSE a, Len(s))
  IN SubSeq(s, lo + 1, hi)

\* String.prototype.substring(a): to the end of the string.
substringFrom(s, a) == substring(s, a, Len(s))

\* The character at 0-based offset i, "" past the end.
charAt(s, i) == IF i < Len(s) THEN SubSeq(s, i + 1, i + 1) ELSE ""

\* String.prototype.startsWith.
startsWith(s, p) == Len(s) >= Len(p) /\ SubSeq(s, 1, Len(p)) = p

\* Array.prototype.includes.
includes(arr, x) == \E k \in 1..Len(arr) : arr[k] = x

----------------------------------------------------------------------------
\* ts.createSourceFile: the syntax tree of a text, for the statement forms
\* rewriteImports distinguishes.  Every node carries its offsets into the text.

LineBreak == {"\n", "\r"}
WhiteSpace == {" ", "\t", "\n", "\r"}
Quote == {"'", "\""}
IdentifierPart ==
  {"a", "b", "c", "d", "e", "f", "g", "h", "i", "j", "k", "l", "m",
   "n", "o", "p", "q", "r", "s", "t", "u", "v", "w", "x", "y", "z",
   "A", "B", "C", "D", "E", "F", "G", "H", "I", "J", "K", "L", "M",
   "N", "O", "P", "Q", "R", "S", "T", "U", "V", "W", "X", "Y", "Z", "_", "$"}

\* The first offset >= i whose character is not in S (or the end of the text).
ScanWhile(t, i, S) ==
  IF i >= Len(t) THEN i
  ELSE CHOOSE j \in i..Len(t) :
         /\ j = Len(t) \/ charAt(t, j) \notin S
         /\ \A k \in i..(j - 1) : charAt(t, k) \in S

\* The first offset >= i whose character is in S (or the end of the text).
ScanUntil(t, i, S) ==
  IF i >= Len(t) THEN i
  ELSE CHOOSE j \in i..Len(t) :
         /\ j = Len(t) \/ charAt(t, j) \in S
         /\ \A k \in i..(j - 1) : charAt(t, k) \notin S

\* ts.skipTrivia: the offset of the first token at or after i, white space,
\* line breaks and line comments skipped.
RECURSIVE skipTrivia(_, _)
skipTrivia(t, i) ==
  LET j == ScanWhile(t, i, WhiteSpace)
  IN IF charAt(t, j) = "/" /\ charAt(t, j + 1) = "/"
       THEN skipTrivia(t, ScanUntil(t, j, LineBreak))
       ELSE j

\* The token that starts at offset i.  A string literal runs to its closing
\* quote, or to the end of the line when it is unterminated.
Token(t, i) ==
  LET c == charAt(t, i) IN
  IF c \in Quote
    THEN LET j == ScanUntil(t, i + 1, {c} \cup LineBreak)
         IN [kind |-> "StringLiteral", start |-> i,
             end |-> IF charAt(t, j) = c THEN j + 1 ELSE j,
             text |-> substring(t, i + 1, j)]
  ELSE IF c \in IdentifierPart
    THEN LET j == ScanWhile(t, i, IdentifierPart)
         IN [kind |-> "Identifier", start |-> i, end |-> j,
             text |-> substring(t, i, j)]
  ELSE [kind |-> "Punctuation", start |-> i, end |-> i + 1, text |-> c]

\* The scanner: the tokens of t from offset i up to and including the next `;`
\* (or to the end of the text).
RECURSIVE Scan(_, _, _)
Scan(t, i, acc) ==
  LET start == skipTrivia(t, i) IN
  IF start >= Len(t) THEN acc
  ELSE LET tok == Token(t, start) IN
       IF tok.kind = "Punctuation" /\ tok.text = ";"
         THEN Append(acc, tok)
         ELSE Scan(t, tok.end, Append(acc, tok))

\* Token k of toks is the keyword, identifier or punctuation w.
Is(toks, k, w) ==
  k <= Len(toks) /\ toks[k].kind # "StringLiteral" /\ toks[k].text = w
IsIdentifier(toks, k) == k <= Len(toks) /\ toks[k].kind = "Identifier"
IsString(toks, k) == k <= Len(toks) /\ toks[k].kind = "StringLiteral"

\* The index of the first token from k on that is the punctuation w, or
\* Len(toks) + 1.
RECURSIVE IndexOf(_, _, _)
IndexOf(toks, k, w) ==
  IF k > Len(toks) \/ Is(toks, k, w) THEN k ELSE IndexOf(toks, k + 1, w)

\* The import specifiers between the braces of a named import: `name` is the
\* local binding, `propertyName` the exported name when it is renamed
\* (`propertyName as name`), as in ts.ImportSpecifier.  ok is FALSE when the
\* tokens are no list of specifiers.
RECURSIVE ImportSpecifiers(_, _)
ImportSpecifiers(toks, acc) ==
  IF toks = <<>> THEN [ok |-> TRUE, elements |-> acc]
  ELSE IF IsIdentifier(toks, 1) /\ Is(toks, 2, "as") /\ IsIdentifier(toks, 3)
          /\ (Len(toks) = 3 \/ Is(toks, 4, ","))
    THEN ImportSpecifiers(SubSeq(toks, 5, Len(toks)),
           Append(acc, [name |-> [text |-> toks[3].text],
                        propertyName |-> [defined |-> TRUE, text |-> toks[1].text]]))
  ELSE IF IsIdentifier(toks, 1) /\ (Len(toks) = 1 \/ Is(toks, 2, ","))
    THEN ImportSpecifiers(SubSeq(toks, 3, Len(toks)),
           Append(acc, [name |-> [text |-> toks[1].text],
                        propertyName |-> [defined |-> FALSE]]))
  ELSE [ok |-> FALSE, elements |-> acc]

CallExpression(callee, args) ==
  [kind |-> "CallExpression",
   expression |-> [kind |-> "Identifier", escapedText |-> callee.text],
   arguments |-> args]

\* The statement made of the tokens toks (the last one its `;`), whose full
\* start, leading trivia included, is pos.
Statement(toks, pos) ==
  LET n == Len(toks)
      end == toks[n].end
      close == IndexOf(toks, 3, "}")
      specs == ImportSpecifiers(SubSeq(toks, 3, close - 1), <<>>)
      unknown == [kind |-> "Unknown", pos |-> pos, end |-> end]
  IN
  IF Is(toks, 1, "import") /\ IsString(toks, 2) /\ Is(toks, 3, ";") /\ n = 3
    THEN \* import 'location';
         [kind |-> "ImportDeclaration", pos |-> pos, end |-> end,
          importClause |-> [defined |-> FALSE],
          moduleSpecifier |-> toks[2]]
  ELSE IF Is(toks, 1, "import") /\ Is(toks, 2, "*") /\ Is(toks, 3, "as")
          /\ IsIdentifier(toks, 4) /\ Is(toks, 5, "from") /\ IsString(toks, 6)
          /\ Is(toks, 7, ";") /\ n = 7
    THEN \* import * as name from 'location';
         [kind |-> "ImportDeclaration", pos |-> pos, end |-> end,
          importClause |-> [defined |-> TRUE,
             namedBindings |-> [kind |-> "NamespaceImport",
                                name |-> [text |-> toks[4].text]]],
          moduleSpecifier |-> toks[6]]
  ELSE IF Is(toks, 1, "import") /\ Is(toks, 2, "{") /\ close <= n /\ specs.ok
          /\ Is(toks, close + 1, "from") /\ IsString(toks, close + 2)
          /\ Is(toks, close + 3, ";") /\ n = close + 3
    THEN \* import { foo, bar as baz } from 'location';
         [kind |-> "ImportDeclaration", pos |-> pos, end |-> end,
          importClause |-> [defined |-> TRUE,
             namedBindings |-> [kind |-> "NamedImports",
                                elements |-> specs.elements]],
          moduleSpecifier |-> toks[close + 2]]
  ELSE IF Is(toks, 1, "import") /\ Is(toks, 2, "{") /\ close <= n /\ specs.ok
          /\ Is(toks, close + 1, "=") /\ IsIdentifier(toks, close + 2)
          /\ Is(toks, close + 3, "(") /\ IsString(toks, close + 4)
          /\ Is(toks, close + 5, ")") /\ Is(toks, close + 6, ";") /\ n = close + 6
    THEN \* import { foo } = require('location');  (`from` missing: the module
         \* specifier is parsed as the expression `<missing> = require(...)`)
         [kind |-> "ImportDeclaration", pos |-> pos, end |-> end,
          importClause |-> [defined |-> TRUE,
             namedBindings |-> [kind |-> "NamedImports",
                                elements |-> specs.elements]],
          moduleSpecifier |-> [kind |-> "BinaryExpression",
             right |-> CallExpression(toks[close + 2], <<toks[close + 4]>>)]]
  ELSE IF Is(toks, 1, "import") /\ IsIdentifier(toks, 2) /\ Is(toks, 3, "from")
          /\ IsString(toks, 4) /\ Is(toks, 5, ";") /\ n = 5
    THEN \* import name from 'location';
         [kind |-> "ImportDeclaration", pos |-> pos, end |-> end,
          importClause |-> [defined |-> TRUE,
             name |-> [text |-> toks[2].text],
             namedBindings |-> [kind |-> "undefined"]],
          moduleSpecifier |-> toks[4]]
  ELSE IF Is(toks, 1, "import") /\ IsIdentifier(toks, 2) /\ Is(toks, 3, "=")
          /\ Is(toks, 4, "require") /\ Is(toks, 5, "(") /\ IsString(toks, 6)
          /\ Is(toks, 7, ")") /\ Is(toks, 8, ";") /\ n = 8
    THEN \* import name = require('location');
         [kind |-> "ImportEqualsDeclaration", pos |-> pos, end |-> end,
          name |-> [text |-> toks[2].text],
          moduleReference |-> [kind |-> "ExternalModuleReference",
                               expression |-> toks[6]]]
  ELSE IF IsIdentifier(toks, 1) /\ ~Is(toks, 1, "import") /\ Is(toks, 2, "(")
          /\ IsString(toks, 3) /\ Is(toks, 4, ")") /\ Is(toks, 5, ";") /\ n = 5
    THEN \* callee('argument');
         [kind |-> "ExpressionStatement", pos |-> pos, end |-> end,
          expression |-> CallExpression(toks[1], <<toks[3]>>)]
  ELSE unknown

\* The statements of t from offset pos on: each is made of the tokens up to
\* its `;`, and starts, leading trivia included, where the one before ended.
RECURSIVE Statements(_, _, _)
Statements(t, pos, acc) ==
  LET toks == Scan(t, pos, <<>>) IN
  IF toks = <<>> THEN acc
  ELSE LET node == Statement(toks, pos)
       IN Statements(t, node.end, Append(acc, node))

\* sourceFile.statements of ts.createSourceFile(fileName, text, ...).
createSourceFile(text) == Statements(text, 0, <<>>)

----------------------------------------------------------------------------
\* The rule table.

EXEMPTIONS == {"@aws-cdk/cloudformation-diff"}

\* `undefined`, and a defined string.
undefined == [defined |-> FALSE]
Some(s) == [defined |-> TRUE, value |-> s]

\* The length of the prefix '@aws-cdk/' that modulePath.substring(9) strips.
PrefixLength == 9

\* updatedLocationOf without its test of EXEMPTIONS.
updatedLocationOfNoExemptions(modulePath) ==
  IF ~startsWith(modulePath, "@aws-cdk/") THEN undefined
  ELSE IF modulePath = "@aws-cdk/core" THEN Some("aws-cdk-lib")
  ELSE IF modulePath = "@aws-cdk/assert" THEN Some("@aws-cdk/assert")
  ELSE IF modulePath = "@aws-cdk/assert/jest" THEN Some("@aws-cdk/assert/jest")
  ELSE Some("aws-cdk-lib/" \o substringFrom(modulePath, PrefixLength))

\* updatedLocationOf stripping one character too few.
updatedLocationOfOffByOne(modulePath) ==
  IF ~startsWith(modulePath, "@aws-cdk/") \/ modulePath \in EXEMPTIONS
    THEN undefined
  ELSE IF modulePath = "@aws-cdk/core" THEN Some("aws-cdk-lib")
  ELSE IF modulePath = "@aws-cdk/assert" THEN Some("@aws-cdk/assert")
  ELSE IF modulePath = "@aws-cdk/assert/jest" THEN Some("@aws-cdk/assert/jest")
  ELSE Some("aws-cdk-lib/" \o substringFrom(modulePath, PrefixLength - 1))

\* updatedLocationOf without its test of the '@aws-cdk/' prefix.
updatedLocationOfNoPrefixTest(modulePath) ==
  IF modulePath \in EXEMPTIONS THEN undefined
  ELSE IF modulePath = "@aws-cdk/core" THEN Some("aws-cdk-lib")
  ELSE IF modulePath = "@aws-cdk/assert" THEN Some("@aws-cdk/assert")
  ELSE IF modulePath = "@aws-cdk/assert/jest" THEN Some("@aws-cdk/assert/jest")
  ELSE Some("aws-cdk-lib/" \o substringFrom(modulePath, PrefixLength))

updatedLocationOf(modulePath) ==
  IF ~startsWith(modulePath, "@aws-cdk/") \/ modulePath \in EXEMPTIONS
    THEN undefined
  ELSE IF modulePath = "@aws-cdk/core" THEN Some("aws-cdk-lib")
  ELSE IF modulePath = "@aws-cdk/assert" THEN Some("@aws-cdk/assert")
  ELSE IF modulePath = "@aws-cdk/assert/jest" THEN Some("@aws-cdk/assert/jest")
  ELSE Some("aws-cdk-lib/" \o substringFrom(modulePath, PrefixLength))

----------------------------------------------------------------------------
\* The helpers nested in rewriteImports.

\* bindings.elements.map(e => e.name.text)
RECURSIVE NameTexts(_)
NameTexts(elements) ==
  IF elements = <<>> THEN <<>>
  ELSE <<elements[1].name.text>> \o NameTexts(Tail(elements))

\* getModuleSpecifier recognizing an import clause without named bindings too.
RECURSIVE getModuleSpecifierWithDefault(_)
getModuleSpecifierWithDefault(node) ==
  IF node.kind = "ImportDeclaration" THEN
    IF node.moduleSpecifier.kind = "StringLiteral" THEN
      IF ~node.importClause.defined
        THEN [defined |-> TRUE, module |-> node.moduleSpecifier, type |-> "none",
              hasSymbols |-> FALSE, symbols |-> <<>>]
      ELSE IF node.importClause.namedBindings.kind = "NamedImports"
        THEN [defined |-> TRUE, module |-> node.moduleSpecifier, type |-> "named",
              hasSymbols |-> TRUE,
              symbols |-> NameTexts(node.importClause.namedBindings.elements)]
      ELSE IF node.importClause.namedBindings.kind = "NamespaceImport"
        THEN [defined |-> TRUE, module |-> node.moduleSpecifier, type |-> "namespace",
              hasSymbols |-> TRUE,
              symbols |-> <<node.importClause.namedBindings.name.text>>]
      ELSE \* import name from 'location';
           [defined |-> TRUE, module |-> node.moduleSpecifier, type |-> "none",
            hasSymbols |-> FALSE, symbols |-> <<>>]
    ELSE IF node.moduleSpecifier.kind = "BinaryExpression"
            /\ node.moduleSpecifier.right.kind = "CallExpression"
      THEN getModuleSpecifierWithDefault(node.moduleSpecifier.right)
    ELSE undefined
  ELSE IF node.kind = "ImportEqualsDeclaration"
          /\ node.moduleReference.kind = "ExternalModuleReference"
          /\ node.moduleReference.expression.kind = "StringLiteral"
    THEN [defined |-> TRUE, module |-> node.moduleReference.expression,
          type |-> "none", hasSymbols |-> FALSE, symbols |-> <<>>]
  ELSE IF node.kind = "CallExpression"
          /\ node.expression.kind = "Identifier"
          /\ node.expression.escapedText = "require"
          /\ Len(node.arguments) = 1
    THEN IF node.arguments[1].kind = "StringLiteral"
           THEN [defined |-> TRUE, module |-> node.arguments[1], type |-> "none",
                 hasSymbols |-> FALSE, symbols |-> <<>>]
           ELSE undefined
  ELSE IF node.kind = "ExpressionStatement" /\ node.expression.kind = "CallExpression"
    THEN getModuleSpecifierWithDefault(node.expression)
  ELSE undefined

\* A defined result carries hasSymbols = FALSE when `symbols` is left out.
RECURSIVE getModuleSpecifier(_)
getModuleSpecifier(node) ==
  IF node.kind = "ImportDeclaration" THEN
    IF node.moduleSpecifier.kind = "StringLiteral" THEN
      IF ~node.importClause.defined
        THEN [defined |-> TRUE, module |-> node.moduleSpecifier, type |-> "none",
              hasSymbols |-> FALSE, symbols |-> <<>>]
      ELSE IF node.importClause.namedBindings.kind = "NamedImports"
        THEN [defined |-> TRUE, module |-> node.moduleSpecifier, type |-> "named",
              hasSymbols |-> TRUE,
              symbols |-> NameTexts(node.importClause.namedBindings.elements)]
      ELSE IF node.importClause.namedBindings.kind = "NamespaceImport"
        THEN [defined |-> TRUE, module |-> node.moduleSpecifier, type |-> "namespace",
              hasSymbols |-> TRUE,
              symbols |-> <<node.importClause.namedBindings.name.text>>]
      ELSE undefined
    ELSE IF node.moduleSpecifier.kind = "BinaryExpression"
            /\ node.moduleSpecifier.right.kind = "CallExpression"
      THEN getModuleSpecifier(node.moduleSpecifier.right)
    ELSE undefined
  ELSE IF node.kind = "ImportEqualsDeclaration"
          /\ node.moduleReference.kind = "ExternalModuleReference"
          /\ node.moduleReference.expression.kind = "StringLiteral"
    THEN [defined |-> TRUE, module |-> node.moduleReference.expression,
          type |-> "none", hasSymbols |-> FALSE, symbols |-> <<>>]
  ELSE IF node.kind = "CallExpression"
          /\ node.expression.kind = "Identifier"
          /\ node.expression.escapedText = "require"
          /\ Len(node.arguments) = 1
    THEN IF node.arguments[1].kind = "StringLiteral"
           THEN [defined |-> TRUE, module |-> node.arguments[1], type |-> "none",
                 hasSymbols |-> FALSE, symbols |-> <<>>]
           ELSE undefined
  ELSE IF node.kind = "ExpressionStatement" /\ node.expression.kind = "CallExpression"
    THEN getModuleSpecifier(node.expression)
  ELSE undefined

\* /^[\n\r]*([\t ]+)/ on the node's full text, leading trivia included.
getIndent(node, sourceText) ==
  LET text == substring(sourceText, node.pos, node.end)
      a == ScanWhile(text, 0, LineBreak)
      b == ScanWhile(text, a, {"\t", " "})
  IN IF b = a THEN "" ELSE substring(text, a, b)

\* node.getStart(sourceFile) and node.getEnd() of a string literal.
getStart(literal) == literal.start
getEnd(literal) == literal.end

\* RelocationFires without its test of the module path.
RelocationFiresAnyModule(moduleSpecifier) ==
  /\ moduleSpecifier.hasSymbols
  /\ includes(moduleSpecifier.symbols, "Construct")

\* moduleSpecifier.module.text === '@aws-cdk/core'
\*   && moduleSpecifier.symbols?.includes('Construct')
RelocationFires(moduleSpecifier) ==
  /\ moduleSpecifier.module.text = "@aws-cdk/core"
  /\ moduleSpecifier.hasSymbols
  /\ includes(moduleSpecifier.symbols, "Construct")

\* The body of the visitor: what one visited node adds to the closure's state.
visitor(node, st) ==
  LET moduleSpecifier == getModuleSpecifier(node) IN
  IF ~moduleSpecifier.defined
    THEN [st EXCEPT !.moduleSpecifier = moduleSpecifier, !.newTarget = undefined]
  ELSE
    LET newTarget == updatedLocationOf(moduleSpecifier.module.text) IN
    [moduleSpecifier |-> moduleSpecifier,
     newTarget |-> newTarget,
     importInsertions |->
       IF RelocationFires(moduleSpecifier)
         THEN Append(st.importInsertions,
                     getIndent(node, st.sourceText)
                       \o "import { Construct } from 'constructs';")
         ELSE st.importInsertions,
     replacements |->
       IF newTarget.defined
         THEN Append(st.replacements, [original |-> moduleSpecifier.module,
                                       updatedLocation |-> newTarget.value])
         ELSE st.replacements,
     sourceText |-> st.sourceText]

\* A visit that descends into the call expression of an expression statement.
VisitedNodesDeep(statement) ==
  IF statement.kind = "ExpressionStatement"
    THEN <<statement, statement.expression>>
    ELSE <<statement>>

\* ts.visitNode(node, visitor): the visitor is called on the statement itself
\* and on none of its children.
VisitedNodes(statement) == <<statement>>

RECURSIVE VisitAll(_, _)
VisitAll(nodes, st) ==
  IF nodes = <<>> THEN st ELSE VisitAll(Tail(nodes), visitor(nodes[1], st))

\* The comparator with its operands exchanged: ascending start offset.
compareAscending(l, r) == getStart(l.original) - getStart(r.original)

\* The comparator of replacements.sort: descending start offset.
compare(l, r) == getStart(r.original) - getStart(l.original)

\* Array.prototype.sort with that comparator (stable).
RECURSIVE sort(_)
sort(arr) ==
  IF arr = <<>> THEN <<>>
  ELSE LET rest == sort(SubSeq(arr, 1, Len(arr) - 1))
           x == arr[Len(arr)]
           \* x goes after every element that does not compare greater than it
           k == Cardinality({i \in 1..Len(rest) : compare(rest[i], x) <= 0})
       IN SubSeq(rest, 1, k) \o <<x>> \o SubSeq(rest, k + 1, Len(rest))

\* One iteration of the replacement loop.
ApplyOne(text, replacement) ==
  LET prefix == substring(text, 0, getStart(replacement.original) + 1)
      suffix == substringFrom(text, getEnd(replacement.original) - 1)
  IN prefix \o replacement.updatedLocation \o suffix

\* An iteration from the last element to the first.
RECURSIVE IterationOrderReversed(_)
IterationOrderReversed(arr) ==
  IF arr = <<>> THEN <<>>
  ELSE Append(IterationOrderReversed(Tail(arr)), arr[1])

\* for (const insertion of importInsertions): the elements in array order.
IterationOrder(arr) == arr

\* One iteration of the insertion loop.
Prepend(insertion, text) == insertion \o "\n" \o text

----------------------------------------------------------------------------
\* The input sources: up to MaxStmts statements, each with its leading trivia,
\* and a final line break.

Menu ==
  { "import { Construct } from '@aws-cdk/core';",
    "\n  import { Stack, Construct } from '@aws-cdk/core';",
    "\n\n\timport { Construct } from \"@aws-cdk/core\";",
    "// c\n  import { Construct } from '@aws-cdk/core';",
    "\nimport { Construct as C } from '@aws-cdk/core';",
    "\nimport { Other as Construct } from '@aws-cdk/core';",
    "\nimport * as iam from \"@aws-cdk/aws-iam\";",
    "\nimport '@aws-cdk/assert';",
    "\nrequire('@aws-cdk/assert/jest');",
    "\nimport diff = require('@aws-cdk/cloudformation-diff');",
    "\nimport { Construct } from 'constructs';",
    "\nimport lib from '@aws-cdk/aws-s3';",
    "\nimport * as Construct from '@aws-cdk/core';",
    "\nimport Construct = require('@aws-cdk/core');",
    "\nfoo('@aws-cdk/core');",
    "\nimport { Type } = require('@aws-cdk/aws-iam');" }

RECURSIVE Concat(_)
Concat(ss) == IF ss = <<>> THEN "" ELSE ss[1] \o Concat(Tail(ss))

Sources ==
  { Concat(ss) \o "\n" :
      ss \in UNION { [1..n -> Menu] : n \in 0..MaxStmts } }

----------------------------------------------------------------------------
\* rewriteImports as a state machine, called on a source and then once more on
\* its own result.

VARIABLES
  sourceText,         \* the parameter
  pass,               \* 1: the call on the source, 2: the call on its result
  pc,                 \* the position in rewriteImports
  sourceFile,         \* sourceFile.statements
  next,               \* the statement forEach is at
  moduleSpecifier,    \* the visitor's last moduleSpecifier
  newTarget,          \* the visitor's last newTarget
  replacements,
  importInsertions,
  at,                 \* the index the running for-of loop is at
  updatedSourceText,
  result              \* the returned text

vars == <<sourceText, pass, pc, sourceFile, next, moduleSpecifier, newTarget,
          replacements, importInsertions, at, updatedSourceText, result>>

Entry(text, n) ==
  /\ sourceText = text
  /\ pass = n
  /\ pc = "parse"
  /\ sourceFile = <<>>
  /\ next = 1
  /\ moduleSpecifier = undefined
  /\ newTarget = undefined
  /\ replacements = <<>>
  /\ importInsertions = <<>>
  /\ at = 1
  /\ updatedSourceText = text
  /\ result = ""

Init == \E text \in Sources : Entry(text, 1)

\* const sourceFile = ts.createSourceFile(...)
CreateSourceFile ==
  /\ pc = "parse"
  /\ sourceFile' = createSourceFile(sourceText)
  /\ pc' = "visit"
  /\ UNCHANGED <<sourceText, pass, next, moduleSpecifier, newTarget, replacements,
                 importInsertions, at, updatedSourceText, result>>

\* sourceFile.statements.forEach(node => ts.visitNode(node, visitor)): one node
VisitNode ==
  /\ pc = "visit"
  /\ next <= Len(sourceFile)
  /\ LET st == VisitAll(VisitedNodes(sourceFile[next]),
                        [moduleSpecifier |-> moduleSpecifier,
                         newTarget |-> newTarget,
                         importInsertions |-> importInsertions,
                         replacements |-> replacements,
                         sourceText |-> sourceText])
     IN /\ moduleSpecifier' = st.moduleSpecifier
        /\ newTarget' = st.newTarget
        /\ importInsertions' = st.importInsertions
        /\ replacements' = st.replacements
  /\ next' = next + 1
  /\ UNCHANGED <<sourceText, pass, pc, sourceFile, at, updatedSourceText, result>>

\* replacements.sort(...), in place, once every statement is visited
SortReplacements ==
  /\ pc = "visit"
  /\ next > Len(sourceFile)
  /\ replacements' = sort(replacements)
  /\ at' = 1
  /\ pc' = "replace"
  /\ UNCHANGED <<sourceText, pass, sourceFile, next, moduleSpecifier, newTarget,
                 importInsertions, updatedSourceText, result>>

\* for (const replacement of replacements) ...: one iteration
ApplyReplacement ==
  /\ pc = "replace"
  /\ at <= Len(replacements)
  /\ updatedSourceText' = ApplyOne(updatedSourceText, replacements[at])
  /\ at' = at + 1
  /\ UNCHANGED <<sourceText, pass, pc, sourceFile, next, moduleSpecifier, newTarget,
                 replacements, importInsertions, result>>

\* the replacement loop ends
EndReplacements ==
  /\ pc = "replace"
  /\ at > Len(replacements)
  /\ at' = 1
  /\ pc' = "insert"
  /\ UNCHANGED <<sourceText, pass, sourceFile, next, moduleSpecifier, newTarget,
                 replacements, importInsertions, updatedSourceText, result>>

\* for (const insertion of importInsertions) ...: one iteration
ApplyInsertion ==
  /\ pc = "insert"
  /\ at <= Len(importInsertions)
  /\ updatedSourceText' =
       Prepend(IterationOrder(importInsertions)[at], updatedSourceText)
  /\ at' = at + 1
  /\ UNCHANGED <<sourceText, pass, pc, sourceFile, next, moduleSpecifier, newTarget,
                 replacements, importInsertions, result>>

\* return updatedSourceText
Return ==
  /\ pc = "insert"
  /\ at > Len(importInsertions)
  /\ result' = updatedSourceText
  /\ pc' = "done"
  /\ UNCHANGED <<sourceText, pass, sourceFile, next, moduleSpecifier, newTarget,
                 replacements, importInsertions, at, updatedSourceText>>

\* rewriteImports(rewriteImports(s)): the second call, on the first one's result
RewriteAgain ==
  /\ pc = "done"
  /\ pass = 1
  /\ sourceText' = result
  /\ pass' = 2
  /\ pc' = "parse"
  /\ sourceFile' = <<>>
  /\ next' = 1
  /\ moduleSpecifier' = undefined
  /\ newTarget' = undefined
  /\ replacements' = <<>>
  /\ importInsertions' = <<>>
  /\ at' = 1
  /\ updatedSourceText' = result
  /\ result' = ""

Next ==
  \/ CreateSourceFile
  \/ VisitNode
  \/ SortReplacements
  \/ ApplyReplacement
  \/ EndReplacements
  \/ ApplyInsertion
  \/ Return
  \/ RewriteAgain

Spec == Init /\ [][Next]_vars

----------------------------------------------------------------------------
\* What the properties below speak of.

\* The text of the inserted import statement, without its indentation.
ConstructImport == "import { Construct } from 'constructs';"

\* The name an import specifier imports: the exported one, whatever it is
\* bound to locally.
ExportedName(e) == IF e.propertyName.defined THEN e.propertyName.text ELSE e.name.text

\* node is `import { ... } from '<path>'`.
IsNamedImportFrom(node, path) ==
  /\ node.kind = "ImportDeclaration"
  /\ node.moduleSpecifier.kind = "StringLiteral"
  /\ node.moduleSpecifier.text = path
  /\ node.importClause.defined
  /\ node.importClause.namedBindings.kind = "NamedImports"

\* node is a named import of the exported symbol Construct from '@aws-cdk/core'.
ImportsConstruct(node) ==
  /\ IsNamedImportFrom(node, "@aws-cdk/core")
  /\ \E k \in 1..Len(node.importClause.namedBindings.elements) :
        ExportedName(node.importClause.namedBindings.elements[k]) = "Construct"

\* The source text with the interior of every literal that has an updated
\* location replaced by it, all at once: built left to right from statement i
\* on, `from` being the offset of the source text already copied.
RECURSIVE Spliced(_, _)
Spliced(i, from) ==
  IF i > Len(sourceFile) THEN substringFrom(sourceText, from)
  ELSE LET ms == getModuleSpecifier(sourceFile[i])
           target == IF ms.defined THEN updatedLocationOf(ms.module.text)
                     ELSE undefined
       IN IF target.defined
            THEN SubSeq(sourceText, from + 1, ms.module.start + 1)
                   \o target.value \o Spliced(i + 1, ms.module.end - 1)
            ELSE Spliced(i + 1, from)

\* Every literal that has an updated location is delimited by two equal quotes.
LiteralsQuoted ==
  \A i \in 1..Len(sourceFile) :
    LET ms == getModuleSpecifier(sourceFile[i]) IN
    (ms.defined /\ updatedLocationOf(ms.module.text).defined) =>
      /\ charAt(sourceText, ms.module.start) \in Quote
      /\ charAt(sourceText, ms.module.end - 1) = charAt(sourceText, ms.module.start)
      /\ ms.module.end - ms.module.start = Len(ms.module.text) + 2

\* The lines of ss, each followed by a line break.
RECURSIVE Lines(_)
Lines(ss) == IF ss = <<>> THEN "" ELSE ss[1] \o "\n" \o Lines(Tail(ss))

RECURSIVE Reverse(_)
Reverse(ss) == IF ss = <<>> THEN <<>> ELSE Append(Reverse(Tail(ss)), ss[1])

\* s consists of spaces and tabs only.
IsBlank(s) == \A k \in 1..Len(s) : SubSeq(s, k, k) \in {" ", "\t"}

\* Where the run of spaces and tabs that ends at offset i begins.
RunStart(t, i) ==
  CHOOSE a \in 0..i :
    /\ \A k \in a..(i - 1) : charAt(t, k) \in {" ", "\t"}
    /\ a = 0 \/ charAt(t, a - 1) \notin {" ", "\t"}

\* The statement begins its line: only spaces and tabs precede it there.
OnOwnLine(node) ==
  LET a == RunStart(sourceText, skipTrivia(sourceText, node.pos))
  IN a = 0 \/ charAt(sourceText, a - 1) \in LineBreak

\* The indentation of the statement on its line.
OwnLineIndent(node) ==
  LET start == skipTrivia(sourceText, node.pos)
  IN substring(sourceText, RunStart(sourceText, start), start)

----------------------------------------------------------------------------
\* The properties.

\* C1: idempotence.  The second call, made on the result of the first, returns
\* its input unchanged: rewriteImports(rewriteImports(s)) = rewriteImports(s).
C1_Idempotent == (pc = "done" /\ pass = 2) => result = sourceText

\* The second call has returned on a text whose first line the first call
\* inserted and which holds a passthrough path.
C1_Witness ==
  /\ pc = "done" /\ pass = 2
  /\ startsWith(sourceText, ConstructImport \o "\n")
  /\ \E i \in 1..Len(sourceFile) :
       /\ getModuleSpecifier(sourceFile[i]).defined
       /\ getModuleSpecifier(sourceFile[i]).module.text
            \in {"@aws-cdk/assert", "@aws-cdk/assert/jest"}

\* C2: relocation insertion.  When exactly one statement of the source is a
\* named import of the exported symbol Construct from '@aws-cdk/core', the
\* result is one inserted line (some indentation, then the import of Construct
\* from 'constructs') followed by the whole source text with its module paths
\* rewritten, the path of that statement among them.
C2_RelocationInsertion ==
  (/\ pc = "done"
   /\ Cardinality({i \in 1..Len(sourceFile) : ImportsConstruct(sourceFile[i])}) = 1)
  => /\ \E k \in 0..Len(result) :
          /\ IsBlank(substring(result, 0, k))
          /\ result = substring(result, 0, k) \o ConstructImport \o "\n"
                        \o Spliced(1, 0)
     /\ \A i \in 1..Len(sourceFile) :
          ImportsConstruct(sourceFile[i]) =>
            \E r \in 1..Len(replacements) :
              /\ replacements[r].original = sourceFile[i].moduleSpecifier
              /\ replacements[r].updatedLocation = "aws-cdk-lib"

\* C3: the relocation rule is keyed on the exported name.  In a source whose
\* references to '@aws-cdk/core' are all named imports, as many lines are
\* inserted as there are statements importing the exported symbol Construct,
\* whatever it is bound to locally.
C3_KeyedOnExportedName ==
  (/\ pc = "done"
   /\ \A i \in 1..Len(sourceFile) :
        (/\ getModuleSpecifier(sourceFile[i]).defined
         /\ getModuleSpecifier(sourceFile[i]).module.text = "@aws-cdk/core")
        => IsNamedImportFrom(sourceFile[i], "@aws-cdk/core"))
  => Len(importInsertions)
       = Cardinality({i \in 1..Len(sourceFile) : ImportsConstruct(sourceFile[i])})

\* C4: the text the replacement loop produces is the source text with the
\* interior of every matched literal replaced at once; the quotes of the
\* literals and every character outside them are those of the source.
C4_SimultaneousReplacement ==
  (pc = "insert" /\ at = 1) =>
    /\ LiteralsQuoted
    /\ updatedSourceText = Spliced(1, 0)

\* The loop has applied two replacements, one of them changing the length of
\* the text before the other, to literals of both quote styles.
C4_Witness ==
  /\ pc = "insert" /\ at = 1 /\ pass = 1
  /\ Len(replacements) >= 2
  /\ \A c \in Quote : \E r \in 1..Len(replacements) :
       charAt(sourceText, getStart(replacements[r].original)) = c
  /\ \E r \in 1..Len(replacements) :
       /\ Len(replacements[r].updatedLocation) # Len(replacements[r].original.text)
       /\ \E q \in 1..Len(replacements) :
            getStart(replacements[q].original) > getStart(replacements[r].original)

\* C5: exemption preservation.  A recognized statement whose path is exempted
\* or passed through has, in the result, the literal it had in the source,
\* quotes included.
C5_ExemptionPreserved ==
  pc = "done" =>
    LET out == createSourceFile(result)
        n == Len(importInsertions)
    IN /\ Len(out) = n + Len(sourceFile)
       /\ \A i \in 1..Len(sourceFile) :
            LET ms == getModuleSpecifier(sourceFile[i]) IN
            (/\ ms.defined
             /\ ms.module.text \in EXEMPTIONS \cup {"@aws-cdk/assert", "@aws-cdk/assert/jest"})
            => LET after == getModuleSpecifier(out[n + i]) IN
               /\ after.defined
               /\ substring(result, after.module.start, after.module.end)
                    = substring(sourceText, ms.module.start, ms.module.end)

\* An exempted path follows, in one source, a statement that was rewritten.
C5_Witness ==
  /\ pc = "done" /\ pass = 1
  /\ Len(sourceFile) = 2
  /\ getModuleSpecifier(sourceFile[1]).defined
  /\ getModuleSpecifier(sourceFile[1]).module.text = "@aws-cdk/core"
  /\ getModuleSpecifier(sourceFile[2]).defined
  /\ getModuleSpecifier(sourceFile[2]).module.text \in EXEMPTIONS
  /\ result # sourceText

\* C6: non-overlap.  No two scheduled replacements have overlapping ranges.
C6_NonOverlap ==
  \A i, j \in 1..Len(replacements) :
    i < j =>
      \/ getEnd(replacements[i].original) <= getStart(replacements[j].original)
      \/ getEnd(replacements[j].original) <= getStart(replacements[i].original)

\* Two replacements are scheduled, one of them for a bare require statement.
C6_Witness ==
  /\ Len(replacements) >= 2
  /\ \E i \in 1..Len(sourceFile) :
       /\ sourceFile[i].kind = "ExpressionStatement"
       /\ getModuleSpecifier(sourceFile[i]).defined

\* C7: the rule table.  The new target the visitor computes for a module path
\* is: none for a path outside '@aws-cdk/' or exempted; 'aws-cdk-lib' for
\* '@aws-cdk/core'; the path itself for the two passthrough paths; and
\* otherwise 'aws-cdk-lib/' followed by the path without its first 9 characters.
C7_RuleTable ==
  moduleSpecifier.defined =>
    LET path == moduleSpecifier.module.text
        legacy == Len(path) >= 9 /\ SubSeq(path, 1, 9) = "@aws-cdk/"
    IN IF ~legacy \/ path = "@aws-cdk/cloudformation-diff"
         THEN ~newTarget.defined
       ELSE /\ newTarget.defined
            /\ newTarget.value =
                 CASE path = "@aws-cdk/core" -> "aws-cdk-lib"
                   [] path = "@aws-cdk/assert" -> "@aws-cdk/assert"
                   [] path = "@aws-cdk/assert/jest" -> "@aws-cdk/assert/jest"
                   [] OTHER -> "aws-cdk-lib/" \o SubSeq(path, 10, Len(path))

\* The visitor has mapped a path by the general rule.
C7_Witness ==
  /\ moduleSpecifier.defined
  /\ moduleSpecifier.module.text = "@aws-cdk/aws-iam"
  /\ newTarget = Some("aws-cdk-lib/aws-iam")

\* C8: a source in which no recognized statement references a path that starts
\* with '@aws-cdk/' is returned unchanged.
C8_NoLegacyNoChange ==
  (/\ pc = "done"
   /\ \A i \in 1..Len(sourceFile) :
        getModuleSpecifier(sourceFile[i]).defined =>
          ~startsWith(getModuleSpecifier(sourceFile[i]).module.text, "@aws-cdk/"))
  => result = sourceText

\* The first call has returned on a source that holds a recognized import of
\* another package and a legacy path in a statement that is not recognized.
C8_Witness ==
  /\ pc = "done" /\ pass = 1
  /\ \A i \in 1..Len(sourceFile) :
       getModuleSpecifier(sourceFile[i]).defined =>
         ~startsWith(getModuleSpecifier(sourceFile[i]).module.text, "@aws-cdk/")
  /\ \E i \in 1..Len(sourceFile) : getModuleSpecifier(sourceFile[i]).defined
  /\ \E i \in 1..Len(sourceFile) : ~getModuleSpecifier(sourceFile[i]).defined

\* C9, as stated: the inserted lines stand at the top of the result in
\* discovery order, the line of the statement met first being the first.
C9_DiscoveryOrder ==
  pc = "done" => result = Lines(importInsertions) \o Spliced(1, 0)

\* C9, amended: the inserted lines stand at the top of the result in reverse
\* discovery order, the line of the statement met last being the first.
C9_ReverseDiscoveryOrder ==
  pc = "done" => result = Lines(Reverse(importInsertions)) \o Spliced(1, 0)

\* Two statements have triggered the relocation rule with different lines.
C9_Witness ==
  /\ pc = "done"
  /\ Len(importInsertions) >= 2
  /\ importInsertions[1] # importInsertions[2]

\* C10: the line inserted for a statement that begins its line carries the
\* indentation of that statement: the spaces and tabs before it on its line.
C10_OriginalIndentation ==
  (/\ pc = "visit" /\ next > 1
   /\ getModuleSpecifier(sourceFile[next - 1]).defined
   /\ RelocationFires(getModuleSpecifier(sourceFile[next - 1]))
   /\ OnOwnLine(sourceFile[next - 1]))
  => /\ importInsertions # <<>>
     /\ importInsertions[Len(importInsertions)]
          = OwnLineIndent(sourceFile[next - 1]) \o ConstructImport

\* node is `import * as X from '...'`, `import X = require('...')` or
\* `require('...')`.
IsNamespaceOrRequire(node) ==
  \/ /\ node.kind = "ImportDeclaration"
     /\ node.moduleSpecifier.kind = "StringLiteral"
     /\ node.importClause.defined
     /\ node.importClause.namedBindings.kind = "NamespaceImport"
  \/ node.kind = "ImportEqualsDeclaration"
  \/ /\ node.kind = "ExpressionStatement"
     /\ node.expression.expression.escapedText = "require"

\* C11: relocation detection is unreachable for namespace imports and
\* require-style bindings.  A source made of such statements only, whatever
\* their aliases, gets no inserted line: the result is the source text with
\* its module paths rewritten.
C11_NamespaceNeverRelocates ==
  (/\ pc = "done"
   /\ \A i \in 1..Len(sourceFile) : IsNamespaceOrRequire(sourceFile[i]))
  => /\ importInsertions = <<>>
     /\ result = Spliced(1, 0)

\* node is `import name from '...'`: an import clause with a default binding
\* and no named or namespace bindings.
IsDefaultImport(node) ==
  /\ node.kind = "ImportDeclaration"
  /\ node.moduleSpecifier.kind = "StringLiteral"
  /\ node.importClause.defined
  /\ node.importClause.namedBindings.kind = "undefined"

\* C12: a default-only import is not recognized by getModuleSpecifier, and its
\* module path is in the result what it was in the source, also when it is a
\* legacy path that updatedLocationOf maps.
C12_DefaultImportUnchanged ==
  pc = "done" =>
    LET out == createSourceFile(result)
        n == Len(importInsertions)
    IN \A i \in 1..Len(sourceFile) :
         IsDefaultImport(sourceFile[i]) =>
           /\ ~getModuleSpecifier(sourceFile[i]).defined
           /\ Len(out) = n + Len(sourceFile)
           /\ IsDefaultImport(out[n + i])
           /\ out[n + i].moduleSpecifier.text = sourceFile[i].moduleSpecifier.text
           /\ substring(result, out[n + i].moduleSpecifier.start,
                        out[n + i].moduleSpecifier.end)
                = substring(sourceText, sourceFile[i].moduleSpecifier.start,
                            sourceFile[i].moduleSpecifier.end)

\* The first call has returned on a source whose default import of a legacy
\* path that has an updated location follows a statement that was rewritten.
C12_Witness ==
  /\ pc = "done" /\ pass = 1
  /\ Len(sourceFile) = 2
  /\ IsDefaultImport(sourceFile[2])
  /\ updatedLocationOf(sourceFile[2].moduleSpecifier.text).defined
  /\ Len(replacements) = 1
  /\ result # sourceText

====
